---- MODULE Spec2Model ----
(***************************************************************************)
(* CAYF Monitoring: the SQLite store of src/database.py and the Streamlit  *)
(* script of src/app.py (asset registration, sensor form, seed and reset   *)
(* buttons, targets, roadmap and impact rates, the Reporting tab's         *)
(* automated diagnostic).                                                  *)
(*                                                                         *)
(* Encodings.                                                              *)
(*  - An optional value (a nullable column, a Python None) is a sequence   *)
(*    of length at most one: <<>> is NULL/None, <<v>> is the value v.      *)
(*  - A TEXT value that the code only stores and compares for equality is  *)
(*    a TLA+ string.  The date column is compared with >= and MAX by       *)
(*    SQLite, so it is kept as the sequence of its character codes and     *)
(*    compared the way SQLite's BINARY collation compares it.              *)
(*  - soil_ph is counted in tenths (6.0 is 60), soil_moisture in percent.  *)
(*    The sampled values are multiples of 0.5, which binary floating point *)
(*    represents exactly, so the means of up to three of them compare with *)
(*    the bounds exactly as the rationals below do.                        *)
(***************************************************************************)
EXTENDS Integers, Sequences, FiniteSets, TLC

VARIABLES
    assets,           \* table assets, in rowid order
    seq_assets,       \* AUTOINCREMENT counter of assets (sqlite_sequence)
    sensor_readings,  \* table sensor_readings, in rowid order
    seq_readings,     \* AUTOINCREMENT counter of sensor_readings
    now,              \* the wall clock read by datetime.now()
    cache,            \* st.cache_data entry of load_assets(): <<>> or <<rows>>
    resp,             \* what the last database query returned, NoResp after a write
    report,           \* the Reporting tab as displayed, NoReport when not displayed
    targets,          \* table targets
    upserted,         \* the arguments of the last upsert call: <<>> or <<values>>
    rabbit_logs,      \* table rabbit_logs, in rowid order
    vivoplant_logs,   \* table vivoplant_logs, in rowid order
    financial_targets,  \* table financial_targets, in year order
    roadmap_phases,     \* table roadmap_phases, in rowid order
    roadmap_milestones, \* table roadmap_milestones, in rowid order
    impact_indicators,  \* table impact_indicators, in rowid order
    sqlite_sequence,  \* AUTOINCREMENT counters of the four tables above that have one
    plan_cache,       \* st.cache_data entries of load_roadmap() and load_impact_indicators()
    page,             \* the tab displayed last (its forms or its rates), NoPage when none
    error             \* the exception that ended the last operation: <<>> or <<name>>

\* Groups of variables, for the actions that leave them alone.
logs == <<rabbit_logs, vivoplant_logs>>
plans == <<financial_targets, roadmap_phases, roadmap_milestones, impact_indicators>>

vars == <<assets, seq_assets, sensor_readings, seq_readings, now, cache, resp, report,
          targets, upserted, rabbit_logs, vivoplant_logs, financial_targets,
          roadmap_phases, roadmap_milestones, impact_indicators, sqlite_sequence,
          plan_cache, page, error>>

\* ------------------------------------------------------------------ bounds

\* Rows ever inserted into assets / sensor_readings (the AUTOINCREMENT
\* counters are capped by the guards of the inserting actions).
MaxAssets == 2
MaxReadings == 2
\* Assets ever created by direct calls of the database module.
MaxDbAssets == 1

\* ------------------------------------------------------------ basic values

None == <<>>
Some(v) == <<v>>
IsNone(o) == o = <<>>
Val(o) == o[1]

Min(a, b) == IF a <= b THEN a ELSE b

RECURSIVE SelectRows(_, _)
\* The rows of s, in order, whose index is in keep.
SelectRows(s, keep) ==
    IF s = <<>> THEN <<>>
    ELSE LET n == Len(s)
             front == SelectRows(SubSeq(s, 1, n - 1), keep)
         IN IF n \in keep THEN Append(front, s[n]) ELSE front

\* ------------------------------------------------------------- timestamps

\* A datetime, reduced to its seconds and microseconds fields (the year to
\* minute fields are formatted with the same fixed widths and are equal in
\* all sampled values).
SecSamples == {9, 10}
MicroSamples == {0, 7, 500000}
Times == [sec : SecSamples, us : MicroSamples]

\* Chronological order of two datetimes.
Earlier(a, b) == a.sec < b.sec \/ (a.sec = b.sec /\ a.us < b.us)

Ord0 == 48
OrdDot == 46

\* The character of the decimal digit of n at position 10^k.
DigitAt(n, k) == Ord0 + ((n \div k) % 10)

TwoDigits(n) == <<DigitAt(n, 10), DigitAt(n, 1)>>

SixDigits(n) ==
    <<DigitAt(n, 100000), DigitAt(n, 10000), DigitAt(n, 1000),
      DigitAt(n, 100), DigitAt(n, 10), DigitAt(n, 1)>>

\* datetime.isoformat(): "...SS" when microsecond is 0, else "...SS.ffffff".
isoformat(dt) ==
    TwoDigits(dt.sec) \o (IF dt.us = 0 THEN <<>> ELSE <<OrdDot>> \o SixDigits(dt.us))

\* SQLite's comparison of two TEXT values under the BINARY collation:
\* memcmp over the common length, then the shorter one first.
TextLeq(a, b) ==
    \/ \E i \in 1..Min(Len(a), Len(b)) :
          /\ \A j \in 1..(i - 1) : a[j] = b[j]
          /\ a[i] < b[i]
    \/ /\ Len(a) <= Len(b)
       /\ \A j \in 1..Len(a) : a[j] = b[j]

\* ---------------------------------------------------------------- database

HouseholdsDefault == 500

\* The row of INSERT ... INTO targets (id, updated_at) VALUES (id, ?): the
\* goal columns are NULL, households_target takes its DEFAULT.
TargetsRow(id, dt) ==
    [id |-> id, banane_ca |-> None, taro_ca |-> None, rabbits_cycle |-> None,
     hives_count |-> None, vivoplants_cycle |-> None, loss_rate |-> None,
     households_target |-> Some(HouseholdsDefault), updated_at |-> Some(isoformat(dt))]

\* A plain INSERT of one more row, in place of INSERT OR IGNORE of row 1.
insert_targets(tbl, dt) == Append(tbl, TargetsRow(Len(tbl) + 1, dt))

\* INSERT OR REPLACE in place of INSERT OR IGNORE.
insert_or_replace_targets(tbl, dt) ==
    SelectRows(tbl, {i \in 1..Len(tbl) : tbl[i].id # 1}) \o <<TargetsRow(1, dt)>>

\* INSERT OR IGNORE INTO targets (id, updated_at) VALUES (1, ?)
insert_or_ignore_targets(tbl, dt) ==
    IF \E i \in 1..Len(tbl) : tbl[i].id = 1 THEN tbl ELSE Append(tbl, TargetsRow(1, dt))

\* The AUTOINCREMENT counters of a new database file.
NoSeq == [rabbit_logs |-> 0, vivoplant_logs |-> 0, roadmap_phases |-> 0,
          roadmap_milestones |-> 0, impact_indicators |-> 0]

\* init_db on a new database file at time dt: every table empty, but
\* targets, which holds its row 1.
init_db(dt) ==
    /\ assets = <<>>
    /\ seq_assets = 0
    /\ sensor_readings = <<>>
    /\ seq_readings = 0
    /\ targets = insert_or_ignore_targets(<<>>, dt)
    /\ rabbit_logs = <<>>
    /\ vivoplant_logs = <<>>
    /\ financial_targets = <<>>
    /\ roadmap_phases = <<>>
    /\ roadmap_milestones = <<>>
    /\ impact_indicators = <<>>
    /\ sqlite_sequence = NoSeq

\* INSERT INTO assets: the new rowid is the AUTOINCREMENT counter plus one.
create_asset(tbl, seq, asset_type, name, crop_type) ==
    Append(tbl, [asset_id |-> seq + 1, asset_type |-> asset_type,
                 name |-> name, crop_type |-> crop_type])

\* SELECT * FROM assets ORDER BY asset_id DESC
get_plots(tbl) == [i \in 1..Len(tbl) |-> tbl[Len(tbl) + 1 - i]]

\* An insert that replaces the readings the asset already has.
add_sensor_reading_replace(tbl, seq, asset_id, dt, soil_moisture, soil_ph) ==
    Append(SelectRows(tbl, {i \in 1..Len(tbl) : tbl[i].asset_id # asset_id}),
           [reading_id |-> seq + 1, asset_id |-> asset_id,
            date |-> isoformat(dt),
            soil_moisture |-> soil_moisture, soil_ph |-> soil_ph])

\* INSERT INTO sensor_readings; dt.isoformat() is what is stored.
add_sensor_reading(tbl, seq, asset_id, dt, soil_moisture, soil_ph) ==
    Append(tbl, [reading_id |-> seq + 1, asset_id |-> asset_id,
                 date |-> isoformat(dt),
                 soil_moisture |-> soil_moisture, soil_ph |-> soil_ph])

\* get_sensor_readings with "date > ?" in place of "date >= ?".
get_sensor_readings_strict(tbl, since) ==
    IF IsNone(since) THEN tbl
    ELSE SelectRows(tbl, {i \in 1..Len(tbl) :
                            ~TextLeq(tbl[i].date, isoformat(Val(since)))})

\* SELECT * FROM sensor_readings [WHERE date >= ?], since.isoformat() bound.
get_sensor_readings(tbl, since) ==
    IF IsNone(since) THEN tbl
    ELSE SelectRows(tbl, {i \in 1..Len(tbl) :
                            TextLeq(isoformat(Val(since)), tbl[i].date)})

\* MAX(date) ... GROUP BY asset_id, for one asset_id.
max_date(tbl, asset_id) ==
    LET ds == {tbl[i].date : i \in {k \in 1..Len(tbl) : tbl[k].asset_id = asset_id}}
    IN CHOOSE d \in ds : \A e \in ds : TextLeq(e, d)

\* SELECT s.* FROM sensor_readings s JOIN (SELECT asset_id, MAX(date) ...) x
\* ON s.asset_id = x.asset_id AND s.date = x.max_date
get_latest_sensor_by_plot(tbl) ==
    SelectRows(tbl, {i \in 1..Len(tbl) :
                       tbl[i].date = max_date(tbl, tbl[i].asset_id)})

\* INSERT INTO rabbit_logs
add_rabbit_log(tbl, n, asset_id, dt, births, deaths) ==
    Append(tbl, [log_id |-> n + 1, asset_id |-> asset_id, date |-> isoformat(dt),
                 births |-> births, deaths |-> deaths])

\* INSERT INTO vivoplant_logs
add_vivoplant_log(tbl, n, asset_id, dt, produced, losses) ==
    Append(tbl, [log_id |-> n + 1, asset_id |-> asset_id, date |-> isoformat(dt),
                 produced |-> produced, losses |-> losses])

GoalFields == {"banane_ca", "taro_ca", "rabbits_cycle", "hives_count",
               "vivoplants_cycle", "loss_rate"}

\* dict.get(key): None when the key is absent.
Get(values, key) == IF key \in DOMAIN values THEN Some(values[key]) ELSE None

\* upsert_targets that leaves a column alone when the dict has no value
\* for it (SET col = COALESCE(?, col)).
upsert_targets_coalesce(tbl, values, dt) ==
    [i \in 1..Len(tbl) |->
        IF tbl[i].id = 1
        THEN [k \in DOMAIN tbl[i] |->
                 IF k \in GoalFields /\ k \in DOMAIN values THEN Some(values[k])
                 ELSE IF k = "updated_at" THEN Some(isoformat(dt))
                 ELSE tbl[i][k]]
        ELSE tbl[i]]

\* UPDATE targets SET banane_ca=?, ..., loss_rate=?, updated_at=? WHERE id=1
upsert_targets(tbl, values, dt) ==
    [i \in 1..Len(tbl) |->
        IF tbl[i].id = 1
        THEN [k \in DOMAIN tbl[i] |->
                 IF k \in GoalFields THEN Get(values, k)
                 ELSE IF k = "updated_at" THEN Some(isoformat(dt))
                 ELSE tbl[i][k]]
        ELSE tbl[i]]

\* SELECT * FROM targets WHERE id=1: {} when empty, else the first row as a
\* dict without its id.
get_targets(tbl) ==
    LET df == SelectRows(tbl, {i \in 1..Len(tbl) : tbl[i].id = 1})
    IN IF df = <<>> THEN <<>>
       ELSE [k \in (DOMAIN df[1]) \ {"id"} |-> df[1][k]]

SocialFundPctDefault == 15

FinancialFields == {"banane_ca", "taro_ca", "apiculture_ca", "cuniculture_ca",
                    "vivoplants_ca", "total_target", "social_fund_pct"}

\* kwargs.get(key, default)
GetOr(kwargs, key, default) == IF key \in DOMAIN kwargs THEN kwargs[key] ELSE default

\* INSERT OR IGNORE INTO financial_targets: the row of a year is written once.
insert_or_ignore_financial_target(tbl, year, kwargs, dt) ==
    IF \E i \in 1..Len(tbl) : tbl[i].year = year THEN tbl
    ELSE LET row == [year |-> year, banane_ca |-> kwargs.banane_ca,
                     taro_ca |-> kwargs.taro_ca, apiculture_ca |-> kwargs.apiculture_ca,
                     cuniculture_ca |-> kwargs.cuniculture_ca,
                     vivoplants_ca |-> kwargs.vivoplants_ca,
                     total_target |-> kwargs.total_target,
                     social_fund_pct |-> 15, updated_at |-> isoformat(dt)]
         IN SelectRows(tbl, {i \in 1..Len(tbl) : tbl[i].year < year}) \o <<row>>
            \o SelectRows(tbl, {i \in 1..Len(tbl) : tbl[i].year > year})

\* upsert_financial_target: UPDATE of the allowed columns passed when the
\* year has a row, else INSERT with the defaults; rows are kept in year
\* order (year is the INTEGER PRIMARY KEY).
upsert_financial_target(tbl, year, kwargs, dt) ==
    IF \E i \in 1..Len(tbl) : tbl[i].year = year
    THEN [i \in 1..Len(tbl) |->
             IF tbl[i].year = year /\ (DOMAIN kwargs) \cap FinancialFields # {}
             THEN [k \in DOMAIN tbl[i] |->
                      IF k \in FinancialFields /\ k \in DOMAIN kwargs THEN kwargs[k]
                      ELSE IF k = "updated_at" THEN isoformat(dt)
                      ELSE tbl[i][k]]
             ELSE tbl[i]]
    ELSE LET row == [year |-> year,
                     banane_ca |-> GetOr(kwargs, "banane_ca", 0),
                     taro_ca |-> GetOr(kwargs, "taro_ca", 0),
                     apiculture_ca |-> GetOr(kwargs, "apiculture_ca", 0),
                     cuniculture_ca |-> GetOr(kwargs, "cuniculture_ca", 0),
                     vivoplants_ca |-> GetOr(kwargs, "vivoplants_ca", 0),
                     total_target |-> GetOr(kwargs, "total_target", 0),
                     social_fund_pct |-> GetOr(kwargs, "social_fund_pct", SocialFundPctDefault),
                     updated_at |-> isoformat(dt)]
             before == SelectRows(tbl, {i \in 1..Len(tbl) : tbl[i].year < year})
             after == SelectRows(tbl, {i \in 1..Len(tbl) : tbl[i].year > year})
         IN before \o <<row>> \o after

\* INSERT INTO roadmap_phases (name, status, start_date, end_date, ...)
add_roadmap_phase(tbl, n, name, status, start_date) ==
    Append(tbl, [phase_id |-> n + 1, name |-> name, status |-> status,
                 start_date |-> start_date])

\* SELECT * FROM roadmap_phases ORDER BY start_date (the phases of the
\* default roadmap are inserted in the order of their start dates).
get_roadmap_phases(tbl) == tbl

\* INSERT INTO roadmap_milestones (phase_id, title, target_date, status, notes)
add_roadmap_milestone(tbl, n, phase_id, title, target_date, status) ==
    Append(tbl, [milestone_id |-> n + 1, phase_id |-> phase_id, title |-> title,
                 target_date |-> target_date, actual_date |-> None, status |-> status])

\* UPDATE roadmap_milestones SET status=? [, actual_date=?] WHERE milestone_id=?
update_milestone_status(tbl, milestone_id, status, actual_date) ==
    [i \in 1..Len(tbl) |->
        IF tbl[i].milestone_id = milestone_id
        THEN IF ~IsNone(actual_date)
             THEN [tbl[i] EXCEPT !.status = status, !.actual_date = actual_date]
             ELSE [tbl[i] EXCEPT !.status = status]
        ELSE tbl[i]]

RECURSIVE OrderByTargetDate(_)
\* ORDER BY target_date: insertion of the last row after the rows not above it.
OrderByTargetDate(tbl) ==
    IF tbl = <<>> THEN <<>>
    ELSE LET n == Len(tbl)
             r == tbl[n]
             front == OrderByTargetDate(SubSeq(tbl, 1, n - 1))
             k == Cardinality({i \in 1..Len(front) :
                                  TextLeq(front[i].target_date, r.target_date)})
         IN SubSeq(front, 1, k) \o <<r>> \o SubSeq(front, k + 1, Len(front))

\* SELECT * FROM roadmap_milestones ORDER BY target_date
get_roadmap_milestones(tbl) == OrderByTargetDate(tbl)

\* INSERT INTO impact_indicators; last_updated is datetime.now().
add_impact_indicator(tbl, n, domain, name, unit, target_2027, current_value, dt) ==
    Append(tbl, [indicator_id |-> n + 1, domain |-> domain, name |-> name,
                 unit |-> unit, target_2027 |-> target_2027,
                 current_value |-> current_value, last_updated |-> isoformat(dt)])

\* The three domains in the order of ORDER BY domain.
DomainOrder == <<"Economique", "Environnement", "Social">>

\* SELECT * FROM impact_indicators ORDER BY domain, name (the sampled rows
\* of one domain share their name and stay in rowid order).
get_impact_indicators(tbl) ==
    LET of(d) == SelectRows(tbl, {i \in 1..Len(tbl) : tbl[i].domain = d})
    IN of(DomainOrder[1]) \o of(DomainOrder[2]) \o of(DomainOrder[3])

\* ------------------------------------------------ Reporting tab: diagnostic

\* A pandas mean: NaN, or the rational sum / n (n > 0).
Zero == [nan |-> FALSE, sum |-> 0, n |-> 1]
NaN == [nan |-> TRUE, sum |-> 0, n |-> 1]

RECURSIVE ColSum(_, _)
\* The sum of column col over the rows where it is not NULL.
ColSum(df, col) ==
    IF df = <<>> THEN 0
    ELSE LET v == df[Len(df)][col]
         IN ColSum(SubSeq(df, 1, Len(df) - 1), col) + (IF IsNone(v) THEN 0 ELSE Val(v))

\* Series.mean(): NULLs are skipped; NaN when no value is left.
mean(df, col) ==
    LET k == Cardinality({i \in 1..Len(df) : ~IsNone(df[i][col])})
    IN IF k = 0 THEN NaN ELSE [nan |-> FALSE, sum |-> ColSum(df, col), n |-> k]

\* Comparisons of a mean with a constant; every comparison with NaN is False.
AtLeast(a, c) == ~a.nan /\ a.sum >= c * a.n
AtMost(a, c) == ~a.nan /\ a.sum <= c * a.n
Above(a, c) == ~a.nan /\ a.sum > c * a.n

\* "{:.1f}".format of a pH mean, in tenths: round half to even.
Fmt1(a) ==
    LET q == a.sum \div a.n
        r == a.sum % a.n
    IN IF 2 * r < a.n THEN q
       ELSE IF 2 * r > a.n THEN q + 1
       ELSE IF q % 2 = 0 THEN q ELSE q + 1

PhLow == 60
PhHigh == 70
MoistLow == 40
MoistHigh == 80
HiveGoal == 5

Entry(text, arg) == [text |-> text, arg |-> arg]

PhOptimal(a) == Entry("pH du sol optimal (Moyenne: {:.1f})", Some(Fmt1(a)))
PhWatch(a) == Entry("pH du sol a surveiller ({:.1f} - optimum 6.0-7.0)", Some(Fmt1(a)))
MoistSaturation == Entry("Risque de saturation hydrique (>80%)", None)
MoistStable == Entry("Hydratation des sols stable", None)
HiveExtension == Entry("Potentiel d'extension du rucher (< 5 ruches)", None)
HiveProductive(k) == Entry("Rucher productif ({hive_count} ruches)", Some(k))

NoForce == Entry("Aucune force majeure detectee", None)
NoVigilance == Entry("Aucun point de vigilance", None)
NoOpportunity == Entry("Pas d'opportunite immediate", None)

\* The three lists carried over from the page displayed before.
KeptLists(prev) ==
    IF prev.shown
    THEN [forces |-> prev.forces, weaknesses |-> prev.weaknesses,
          opportunities |-> prev.opportunities]
    ELSE [forces |-> <<>>, weaknesses |-> <<>>, opportunities |-> <<>>]

\* forces = [] ; weaknesses = [] ; opportunities = [] at every script run,
\* whatever the page displayed before (prev).
StartLists(prev) == [forces |-> <<>>, weaknesses |-> <<>>, opportunities |-> <<>>]

avg_ph(df) == IF df = <<>> THEN Zero ELSE mean(df, "soil_ph")
avg_moist(df) == IF df = <<>> THEN Zero ELSE mean(df, "soil_moisture")

\* ph_rule with the warning limited to a low mean (0 < avg_ph < 6.0).
ph_rule_low_only(df, l) ==
    LET a == avg_ph(df)
    IN IF AtLeast(a, PhLow) /\ AtMost(a, PhHigh)
       THEN [l EXCEPT !.forces = Append(@, PhOptimal(a))]
       ELSE IF Above(a, 0) /\ ~AtLeast(a, PhLow)
       THEN [l EXCEPT !.weaknesses = Append(@, PhWatch(a))]
       ELSE l

\* ph_rule with exclusive bounds (6.0 < avg_ph < 7.0).
ph_rule_strict(df, l) ==
    LET a == avg_ph(df)
    IN IF Above(a, PhLow) /\ ~AtLeast(a, PhHigh)
       THEN [l EXCEPT !.forces = Append(@, PhOptimal(a))]
       ELSE IF Above(a, 0)
       THEN [l EXCEPT !.weaknesses = Append(@, PhWatch(a))]
       ELSE l

\* ph_rule with a plain else in place of "elif avg_ph > 0".
ph_rule_else(df, l) ==
    LET a == avg_ph(df)
    IN IF AtLeast(a, PhLow) /\ AtMost(a, PhHigh)
       THEN [l EXCEPT !.forces = Append(@, PhOptimal(a))]
       ELSE [l EXCEPT !.weaknesses = Append(@, PhWatch(a))]

\* Logic: Check Soil pH
ph_rule(df, l) ==
    LET a == avg_ph(df)
    IN IF AtLeast(a, PhLow) /\ AtMost(a, PhHigh)
       THEN [l EXCEPT !.forces = Append(@, PhOptimal(a))]
       ELSE IF Above(a, 0)
       THEN [l EXCEPT !.weaknesses = Append(@, PhWatch(a))]
       ELSE l

\* Logic: Check Moisture
moisture_rule(df, l) ==
    LET a == avg_moist(df)
    IN IF Above(a, MoistHigh)
       THEN [l EXCEPT !.weaknesses = Append(@, MoistSaturation)]
       ELSE IF AtLeast(a, MoistLow) /\ AtMost(a, MoistHigh)
       THEN [l EXCEPT !.forces = Append(@, MoistStable)]
       ELSE l

hive_count(a) == Cardinality({i \in 1..Len(a) : a[i].asset_type = "hive"})

\* hive_rule with the strength kept for more than five hives.
hive_rule_above(a, l) ==
    IF hive_count(a) <= HiveGoal
    THEN [l EXCEPT !.opportunities = Append(@, HiveExtension)]
    ELSE [l EXCEPT !.forces = Append(@, HiveProductive(hive_count(a)))]

\* Logic: Hive Count
hive_rule(a, l) ==
    IF hive_count(a) < HiveGoal
    THEN [l EXCEPT !.opportunities = Append(@, HiveExtension)]
    ELSE [l EXCEPT !.forces = Append(@, HiveProductive(hive_count(a)))]

\* A SWOT card without its placeholder.
ColumnBare(l, placeholder) == l

\* One SWOT card: the entries, or the placeholder when there is none.
Column(l, placeholder) == IF l # <<>> THEN l ELSE <<placeholder>>

\* The diagnostic of the Reporting tab over df_sensors and the assets frame;
\* again tells that the tab was already displayed when the script ran.
Diagnostic(prev, df, a) ==
    LET l == hive_rule(a, moisture_rule(df, ph_rule(df, StartLists(prev))))
    IN [shown |-> TRUE, again |-> prev.shown,
        forces |-> l.forces, weaknesses |-> l.weaknesses,
        opportunities |-> l.opportunities,
        col1 |-> Column(l.forces, NoForce),
        col2 |-> Column(l.weaknesses, NoVigilance),
        col3 |-> Column(l.opportunities, NoOpportunity)]

AssetColumns == {"asset_id", "asset_type", "name", "crop_type", "area_m2",
                 "location", "notes", "created_at"}
SensorColumns == {"reading_id", "asset_id", "date", "light", "air_temp",
                  "air_humidity", "soil_temp", "soil_moisture", "soil_ph",
                  "fertility", "battery"}

\* A frame that takes its columns from its rows: none when it has no row.
columns_of_rows(cols, rows) == IF rows = <<>> THEN {} ELSE cols

\* pd.read_sql_query("SELECT * FROM t"): the frame has the columns of the
\* table, with or without rows.
read_sql_query_columns(cols, rows) == cols

\* frame[c] raises KeyError when the frame has no column c.
KeyError(cols, c) == c \notin cols

\* The exception that ends the diagnostic, None when it runs to its end:
\* the two sensor columns are read only when df_sensors is not empty, the
\* asset_type column of the assets frame always.
DiagnosticError(df, a) ==
    LET sensor == read_sql_query_columns(SensorColumns, df)
        asset == read_sql_query_columns(AssetColumns, a)
    IN IF df # <<>> /\ KeyError(sensor, "soil_ph") THEN Some("KeyError")
       ELSE IF df # <<>> /\ KeyError(sensor, "soil_moisture") THEN Some("KeyError")
       ELSE IF KeyError(asset, "asset_type") THEN Some("KeyError")
       ELSE None

\* ------------------------------------------------------------------- rates

\* A division by zero raises ZeroDivisionError.
ZeroDivisionError(d) == d = 0

\* The outcome of a computation: an exception, or a value.
Raised(name) == [raised |-> Some(name), value |-> Zero]
Returned(v) == [raised |-> None, value |-> v]

\* compute_roadmap_progress without its test of len(milestones).
compute_roadmap_progress_unguarded(milestones) ==
    LET completed == Cardinality({i \in 1..Len(milestones) :
                                     milestones[i].status = "completed"})
    IN IF ZeroDivisionError(Len(milestones)) THEN Raised("ZeroDivisionError")
       ELSE Returned([nan |-> FALSE, sum |-> 100 * completed, n |-> Len(milestones)])

\* compute_roadmap_progress over the milestones frame: the exact quotient
\* 100 * completed / len(milestones), which round(..., 1) then rounds.
compute_roadmap_progress(milestones) ==
    LET completed == Cardinality({i \in 1..Len(milestones) :
                                     milestones[i].status = "completed"})
    IN IF Len(milestones) = 0 THEN Returned(Zero)
       ELSE IF ZeroDivisionError(Len(milestones)) THEN Raised("ZeroDivisionError")
       ELSE Returned([nan |-> FALSE, sum |-> 100 * completed, n |-> Len(milestones)])

\* round(x, 1), in tenths.
Round1(a) == Fmt1([a EXCEPT !.sum = 10 * @])

PctCap == 100

\* The impact percentage without its test of target_2027.
impact_pct_unguarded(ind) ==
    IF ZeroDivisionError(ind.target_2027) THEN Raised("ZeroDivisionError")
    ELSE IF PctCap * ind.target_2027 <= 100 * ind.current_value
    THEN Returned([nan |-> FALSE, sum |-> PctCap, n |-> 1])
    ELSE Returned([nan |-> FALSE, sum |-> 100 * ind.current_value, n |-> ind.target_2027])

\* pct = min(100, current_value / target_2027 * 100) if target_2027 > 0 else 0
impact_pct(ind) ==
    IF ~(ind.target_2027 > 0) THEN Returned(Zero)
    ELSE IF ZeroDivisionError(ind.target_2027) THEN Raised("ZeroDivisionError")
    ELSE IF PctCap * ind.target_2027 <= 100 * ind.current_value
    THEN Returned([nan |-> FALSE, sum |-> PctCap, n |-> 1])
    ELSE Returned([nan |-> FALSE, sum |-> 100 * ind.current_value, n |-> ind.target_2027])

\* The loop of the impact tab: for each domain, in this order, one card per
\* indicator of the domain with its values and its percentage.
ImpactDomains == <<"Social", "Environnement", "Economique">>

ImpactCards(indicators) ==
    LET of(d) == SelectRows(indicators, {i \in 1..Len(indicators) :
                                            indicators[i].domain = d})
        rows == of(ImpactDomains[1]) \o of(ImpactDomains[2]) \o of(ImpactDomains[3])
    IN [i \in 1..Len(rows) |->
           [current_value |-> rows[i].current_value,
            target_2027 |-> rows[i].target_2027,
            pct |-> impact_pct(rows[i])]]

\* The exception of the first card that raises one, None when none does.
ImpactError(cards) ==
    IF \E i \in 1..Len(cards) : ~IsNone(cards[i].pct.raised)
    THEN cards[CHOOSE i \in 1..Len(cards) :
                   /\ ~IsNone(cards[i].pct.raised)
                   /\ \A j \in 1..(i - 1) : IsNone(cards[j].pct.raised)].pct.raised
    ELSE None

\* ----------------------------------------------------------------- results

NoResp == [op |-> "none"]
NoReport == [shown |-> FALSE]
NoCache == <<>>
NoPage == [tab |-> "none"]
NoPlanCache == [phases |-> NoCache, roadmap |-> NoCache, impact |-> NoCache]

\* load_roadmap() under st.cache_data (its milestones frame).
load_roadmap(c, tbl) ==
    IF c.roadmap = NoCache THEN get_roadmap_milestones(tbl) ELSE Val(c.roadmap)

\* load_roadmap() under st.cache_data (its phases frame, cached and dropped
\* together with the milestones frame).
load_phases(c, tbl) ==
    IF c.phases = NoCache THEN get_roadmap_phases(tbl) ELSE Val(c.phases)

\* load_impact_indicators() under st.cache_data.
load_impact_indicators(c, tbl) ==
    IF c.impact = NoCache THEN get_impact_indicators(tbl) ELSE Val(c.impact)

\* load_assets() under st.cache_data: the cached frame, or a fresh read.
load_assets(c, tbl) == IF c = NoCache THEN get_plots(tbl) ELSE Val(c)

\* st.cache_data.clear() ; st.rerun(): the next script run calls
\* load_assets() on an empty cache and caches what it reads.
ClearAndRerun(tbl) == Some(get_plots(tbl))

T0 == [sec |-> 9, us |-> 0]

Init ==
    /\ init_db(T0)
    /\ now = T0
    /\ cache = NoCache
    /\ resp = NoResp
    /\ report = NoReport
    /\ upserted = None
    /\ plan_cache = NoPlanCache
    /\ page = NoPage
    /\ error = None

\* What every script run does before its tab: db.init_db(conn) again.
init_db_again == targets' = insert_or_ignore_targets(targets, now)

\* --------------------------------------------- actions: the Streamlit script

\* The names the script has bound when a run reaches the Performance tab:
\* its imports, conn, assets, TABS, selected_tab, and the tab's own
\* SUB_TABS, sub_selected and plots.
ScriptNames == {"st", "pd", "px", "go", "pdk", "datetime", "date", "db", "CSS", "conn",
                "base64", "os", "assets", "TABS", "selected_tab", "SUB_TABS",
                "sub_selected", "plots"}

\* Evaluating a name the script never bound raises NameError.
NameError(name) == name \notin ScriptNames

SUB_TABS == <<"Banane & Taro", "Apiculture", "Cuniculture", "Vivoplants">>

\* The add form of each sub-section, by the key of its form or button.
AddForms == <<"add_plot_form", "add_hive", "add_rab", "add_vivo_form">>

\* The widgets of "if sub_selected == SUB_TABS[0]:", which run first.
plot_section(sub_selected, a) ==
    IF sub_selected = SUB_TABS[1]
    THEN {"add_plot_form"}
         \cup (IF \E i \in 1..Len(a) : a[i].asset_type = "plot" THEN {"sensor_form"} ELSE {})
    ELSE {}

\* The widgets of "with filieres[1]:", "with filieres[2]:" and
\* "if sub_selected == SUB_TABS[3]:", which run after the plot section
\* whatever sub_selected is.
other_sections(sub_selected) ==
    {"add_hive", "add_rab"}
    \cup (IF sub_selected = SUB_TABS[4] THEN {"add_vivo_form"} ELSE {})

\* The exception that ends a script run with the Performance tab selected.
performance_error == IF NameError("filieres") THEN Some("NameError") ELSE None

\* A script run with the Performance tab selected, as displayed: the
\* widgets laid out until the run ends, and the st.error messages.
PerformancePage(sub_selected, a, messages) ==
    [tab |-> "performance", sub |-> sub_selected,
     forms |-> plot_section(sub_selected, a)
               \cup (IF IsNone(performance_error) THEN other_sections(sub_selected) ELSE {}),
     messages |-> messages]

NameRequired == "Le nom est requis."

\* "if new_name:" -- the truth value of a str.
name_any(new_name) == TRUE
name_given(new_name) == new_name # ""

PlotNames == {"", "Parcelle Nord"}
PlotCrops == {"Banane", "PIF"}
FormSamples == {[soil_moisture |-> 91, soil_ph |-> 85],
                [soil_moisture |-> 60, soil_ph |-> 65]}
ClockTimes == {t \in Times : t.sec = 9 /\ t.us # 7}

\* add_plot_form submitted: "Le nom est requis." for an empty name.  After
\* a stored plot the script reruns with the same tab selected.
AddPlotForm ==
    /\ \E new_name \in PlotNames, new_crop \in PlotCrops :
          \/ /\ name_given(new_name)
             /\ seq_assets < MaxAssets
             /\ assets' = create_asset(assets, seq_assets, "plot", new_name, Some(new_crop))
             /\ seq_assets' = seq_assets + 1
             /\ cache' = ClearAndRerun(assets')
             /\ plan_cache' = NoPlanCache
             /\ page' = PerformancePage(SUB_TABS[1], Val(cache'), {})
          \/ /\ ~name_given(new_name)
             /\ UNCHANGED <<assets, seq_assets, plan_cache>>
             /\ cache' = Some(load_assets(cache, assets))
             /\ page' = PerformancePage(SUB_TABS[1], Val(cache'), {NameRequired})
    /\ resp' = NoResp
    /\ report' = NoReport
    /\ init_db_again
    /\ error' = performance_error
    /\ UNCHANGED <<sensor_readings, seq_readings, now, upserted, logs, plans, sqlite_sequence>>

RECURSIVE ShiftRight(_, _)
\* n >> (8 * k)
ShiftRight(n, k) == IF k = 0 THEN n ELSE ShiftRight(n \div 256, k - 1)

\* The bytes of a non-negative numpy.int64, least significant first.
int64_bytes(n) == [k \in 1..8 |-> ShiftRight(n, k - 1) % 256]

\* What sqlite3 binds for a parameter that is a numpy.int64: the value is
\* not an int, a float or a str and it exports a buffer, so it is bound as
\* a BLOB of its eight bytes (no adapter is registered by the program).
bind_numpy_int64(n) == int64_bytes(n)

\* sensor_form submitted: the plot is chosen by name among the plots of the
\* assets frame, and the first row of that name gives asset_id, taken with
\* .values[0] (a numpy.int64).
SensorFormSubmit ==
    LET df == load_assets(cache, assets)
        plots == SelectRows(df, {i \in 1..Len(df) : df[i].asset_type = "plot"})
    IN /\ Len(plots) > 0
       /\ seq_readings < MaxReadings
       /\ \E selected_plot \in {plots[i].name : i \in 1..Len(plots)}, s \in FormSamples :
             LET first == CHOOSE i \in 1..Len(plots) :
                              /\ plots[i].name = selected_plot
                              /\ \A j \in 1..(i - 1) : plots[j].name # selected_plot
                 asset_id == plots[first].asset_id
             IN sensor_readings' =
                    add_sensor_reading(sensor_readings, seq_readings,
                                       bind_numpy_int64(asset_id), now,
                                       Some(s.soil_moisture), Some(s.soil_ph))
       /\ seq_readings' = seq_readings + 1
       /\ cache' = ClearAndRerun(assets)
       /\ plan_cache' = NoPlanCache
       /\ resp' = NoResp
       /\ report' = NoReport
       /\ init_db_again
       /\ page' = PerformancePage(SUB_TABS[1], Val(cache'), {})
       /\ error' = performance_error
       /\ UNCHANGED <<assets, seq_assets, now, upserted, logs, plans, sqlite_sequence>>

\* What db.create_asset returns to its caller: it has no return statement.
create_asset_result == None

\* sensor_readings.asset_id is NOT NULL: the INSERT raises IntegrityError.
IntegrityError(asset_id) == IsNone(asset_id)

\* Seed Data button: the two plots are inserted and committed, then
\* add_sensor_reading(conn, pid1, ...) raises and the script run ends there,
\* before the other inserts, st.cache_data.clear() and st.rerun().
SeedData ==
    LET pid1 == create_asset_result
        one == create_asset(assets, seq_assets, "plot", "Parcelle Lac 1", Some("Banane"))
        two == create_asset(one, seq_assets + 1, "plot", "Parcelle Sud", Some("Taro"))
    IN /\ seq_assets + 2 <= MaxAssets
       /\ IntegrityError(pid1)
       /\ assets' = two
       /\ seq_assets' = seq_assets + 2
       /\ cache' = Some(load_assets(cache, assets))
       /\ resp' = NoResp
       /\ report' = NoReport
       /\ init_db_again
       /\ page' = NoPage
       /\ error' = Some("IntegrityError")
       /\ UNCHANGED <<sensor_readings, seq_readings, now, upserted, logs, plans,
                      sqlite_sequence, plan_cache>>

\* TOUT EFFACER: DELETE FROM every listed table (those of the list that
\* this model holds); targets and financial_targets are not in the list,
\* and the AUTOINCREMENT counters stay.
ResetDatabase ==
    /\ assets' = <<>>
    /\ sensor_readings' = <<>>
    /\ rabbit_logs' = <<>>
    /\ vivoplant_logs' = <<>>
    /\ roadmap_phases' = <<>>
    /\ roadmap_milestones' = <<>>
    /\ impact_indicators' = <<>>
    /\ cache' = ClearAndRerun(assets')
    /\ plan_cache' = NoPlanCache
    /\ resp' = NoResp
    /\ report' = NoReport
    /\ init_db_again
    /\ page' = NoPage
    /\ error' = None
    /\ UNCHANGED <<seq_assets, seq_readings, now, upserted, financial_targets, sqlite_sequence>>

FinancialYears == {2025}
FinancialAmounts == {100000}

\* "Enregistrer les objectifs" with the year and amounts typed: total is the
\* sum of the five amounts.
add_fin(years, amounts, more) ==
    /\ \E target_year \in years, banane_ca \in amounts, api_ca \in more :
          LET taro_ca == 0
              cuni_ca == 0
              vivo_ca == 0
              total == banane_ca + taro_ca + api_ca + cuni_ca + vivo_ca
              kwargs == [banane_ca |-> banane_ca, taro_ca |-> taro_ca,
                         apiculture_ca |-> api_ca, cuniculture_ca |-> cuni_ca,
                         vivoplants_ca |-> vivo_ca, total_target |-> total]
          IN /\ financial_targets' =
                    upsert_financial_target(financial_targets, target_year, kwargs, now)
             /\ upserted' = Some([year |-> target_year, kwargs |-> kwargs])
    /\ cache' = ClearAndRerun(assets)
    /\ plan_cache' = NoPlanCache
    /\ resp' = NoResp
    /\ report' = NoReport
    /\ init_db_again
    /\ page' = NoPage
    /\ error' = None
    /\ UNCHANGED <<assets, seq_assets, sensor_readings, seq_readings, now,
                   logs, roadmap_phases, roadmap_milestones, impact_indicators,
                   sqlite_sequence>>

FinancialTargetForm == add_fin(FinancialYears, FinancialAmounts, {0})

\* A script run with the Performance tab selected and no form submitted.
RenderPerformance ==
    /\ \E sub_selected \in {SUB_TABS[i] : i \in 1..Len(SUB_TABS)} :
          page' = PerformancePage(sub_selected, load_assets(cache, assets), {})
    /\ cache' = Some(load_assets(cache, assets))
    /\ error' = performance_error
    /\ report' = NoReport
    /\ init_db_again
    /\ UNCHANGED <<assets, seq_assets, sensor_readings, seq_readings, now, resp,
                   upserted, logs, plans, sqlite_sequence, plan_cache>>

\* A script run with the Reporting tab selected.
RenderReporting ==
    LET a == load_assets(cache, assets)
        df_sensors == get_sensor_readings(sensor_readings, None)
    IN /\ cache' = Some(a)
       /\ error' = DiagnosticError(df_sensors, a)
       /\ report' = IF IsNone(error') THEN Diagnostic(report, df_sensors, a) ELSE NoReport
       /\ init_db_again
       /\ page' = NoPage
       /\ UNCHANGED <<assets, seq_assets, sensor_readings, seq_readings, now, resp,
                      upserted, logs, plans, sqlite_sequence, plan_cache>>

\* ttl=60: the cached frame is dropped once it is 60 seconds old.
CacheExpire ==
    /\ cache # NoCache
    /\ cache' = NoCache
    /\ UNCHANGED <<assets, seq_assets, sensor_readings, seq_readings, now, resp, report,
                   targets, upserted, logs, plans, sqlite_sequence, plan_cache, page, error>>

\* Time passes.
Tick ==
    /\ \E t \in ClockTimes : Earlier(now, t) /\ now' = t
    /\ UNCHANGED <<assets, seq_assets, sensor_readings, seq_readings, cache, resp, report,
                   targets, upserted, logs, plans, sqlite_sequence, plan_cache, page, error>>

Next ==
    \/ AddPlotForm
    \/ SensorFormSubmit
    \/ SeedData
    \/ ResetDatabase
    \/ FinancialTargetForm
    \/ RenderReporting
    \/ CacheExpire
    \/ Tick

Spec == Init /\ [][Next]_vars

\* ------------------------------------- actions: calls of the database module

StoreKinds == {[asset_type |-> "plot", name |-> "P", crop_type |-> Some("Banane")]}
DiagKinds == {[asset_type |-> "plot", name |-> "P", crop_type |-> None],
              [asset_type |-> "hive", name |-> "H", crop_type |-> None]}

StoreTimes == {t \in Times : t.us # 500000}
StoreSamples == {[soil_moisture |-> Some(60), soil_ph |-> Some(50)],
                 [soil_moisture |-> Some(60), soil_ph |-> Some(65)]}

DiagTimes == {T0}
DiagSamples == {[soil_moisture |-> None, soil_ph |-> None],
                [soil_moisture |-> Some(30), soil_ph |-> Some(50)],
                [soil_moisture |-> Some(40), soil_ph |-> Some(60)],
                [soil_moisture |-> Some(80), soil_ph |-> Some(70)],
                [soil_moisture |-> Some(90), soil_ph |-> Some(80)],
                [soil_moisture |-> Some(60), soil_ph |-> None]}

\* create_asset(conn, asset_type, name, crop_type=...)
DbCreateAsset(kinds) ==
    /\ seq_assets < MaxDbAssets
    /\ \E k \in kinds :
          assets' = create_asset(assets, seq_assets, k.asset_type, k.name, k.crop_type)
    /\ seq_assets' = seq_assets + 1
    /\ resp' = NoResp
    /\ report' = NoReport
    /\ error' = None
    /\ UNCHANGED <<sensor_readings, seq_readings, now, cache,
                   targets, upserted, logs, plans, sqlite_sequence, plan_cache, page>>

\* add_sensor_reading(conn, asset_id, dt, ...) for a stored plot; the
\* metrics left out default to None.
DbAddSensorReading(times, samples) ==
    /\ seq_readings < MaxReadings
    /\ \E i \in {k \in 1..Len(assets) : assets[k].asset_type = "plot"},
          dt \in times, s \in samples :
          sensor_readings' =
              add_sensor_reading(sensor_readings, seq_readings, assets[i].asset_id, dt,
                                 s.soil_moisture, s.soil_ph)
    /\ seq_readings' = seq_readings + 1
    /\ resp' = NoResp
    /\ report' = NoReport
    /\ error' = None
    /\ UNCHANGED <<assets, seq_assets, now, cache,
                   targets, upserted, logs, plans, sqlite_sequence, plan_cache, page>>

\* get_sensor_readings(conn, since)
DbGetSensorReadings ==
    /\ \E since \in {None} \cup {Some(t) : t \in Times} :
          resp' = [op |-> "get_sensor_readings", since |-> since,
                   rows |-> get_sensor_readings(sensor_readings, since)]
    /\ error' = None
    /\ UNCHANGED <<assets, seq_assets, sensor_readings, seq_readings, now, cache, report,
                   targets, upserted, logs, plans, sqlite_sequence, plan_cache, page>>

\* get_latest_sensor_by_plot(conn)
DbGetLatestSensorByPlot ==
    /\ resp' = [op |-> "get_latest_sensor_by_plot", since |-> None,
                rows |-> get_latest_sensor_by_plot(sensor_readings)]
    /\ error' = None
    /\ UNCHANGED <<assets, seq_assets, sensor_readings, seq_readings, now, cache, report,
                   targets, upserted, logs, plans, sqlite_sequence, plan_cache, page>>

NextStore ==
    \/ DbCreateAsset(StoreKinds)
    \/ DbAddSensorReading(StoreTimes, StoreSamples)
    \/ DbGetSensorReadings
    \/ DbGetLatestSensorByPlot
    \/ RenderReporting

SpecStore == Init /\ [][NextStore]_vars

NextDiag ==
    \/ DbCreateAsset(DiagKinds)
    \/ DbAddSensorReading(DiagTimes, DiagSamples)
    \/ RenderReporting

SpecDiag == Init /\ [][NextDiag]_vars

TargetValues ==
    {[banane_ca |-> 1000000, taro_ca |-> 500000, rabbits_cycle |-> 40,
      hives_count |-> 5, vivoplants_cycle |-> 200, loss_rate |-> 10],
     [banane_ca |-> 2000000, taro_ca |-> 0, rabbits_cycle |-> 60,
      hives_count |-> 8, vivoplants_cycle |-> 300, loss_rate |-> 15],
     [hives_count |-> 6, loss_rate |-> 20],
     [loss_rate |-> 50]}

\* init_db(conn) on the existing database: CREATE TABLE IF NOT EXISTS
\* changes nothing, then the INSERT OR IGNORE of the targets row.
DbInitDb ==
    /\ targets' = insert_or_ignore_targets(targets, now)
    /\ resp' = [op |-> "init_db"]
    /\ report' = NoReport
    /\ error' = None
    /\ UNCHANGED <<assets, seq_assets, sensor_readings, seq_readings, now, cache,
                   upserted, logs, plans, sqlite_sequence, plan_cache, page>>

\* upsert_targets(conn, values)
DbUpsertTargets(samples) ==
    /\ \E values \in samples :
          /\ targets' = upsert_targets(targets, values, now)
          /\ upserted' = Some(values)
    /\ resp' = NoResp
    /\ report' = NoReport
    /\ error' = None
    /\ UNCHANGED <<assets, seq_assets, sensor_readings, seq_readings, now, cache,
                   logs, plans, sqlite_sequence, plan_cache, page>>

\* get_targets(conn)
DbGetTargets ==
    /\ resp' = [op |-> "get_targets", row |-> get_targets(targets)]
    /\ error' = None
    /\ UNCHANGED <<assets, seq_assets, sensor_readings, seq_readings, now, cache, report,
                   targets, upserted, logs, plans, sqlite_sequence, plan_cache, page>>

\* Time passes between two calls of the database module.
DbTick ==
    /\ \E t \in Times : Earlier(now, t) /\ now' = t
    /\ UNCHANGED <<assets, seq_assets, sensor_readings, seq_readings, cache, resp, report,
                   targets, upserted, logs, plans, sqlite_sequence, plan_cache, page, error>>

NextTargets ==
    \/ DbInitDb
    \/ DbUpsertTargets(TargetValues)
    \/ DbGetTargets
    \/ DbTick

SpecTargets == Init /\ [][NextTargets]_vars

\* Rows ever inserted into roadmap_milestones and impact_indicators together.
MaxPlanRows == 2

PlanRows == sqlite_sequence.roadmap_milestones + sqlite_sequence.impact_indicators

MilestoneStatuses == {"pending", "completed"}
MilestoneDates == {TwoDigits(1), TwoDigits(2)}

\* add_roadmap_milestone(conn, phase_id, title, target_date, status)
DbAddRoadmapMilestone ==
    /\ PlanRows < MaxPlanRows
    /\ \E status \in MilestoneStatuses, target_date \in MilestoneDates :
          roadmap_milestones' =
              add_roadmap_milestone(roadmap_milestones, sqlite_sequence.roadmap_milestones,
                                    Some(1), "Jalon", target_date, status)
    /\ sqlite_sequence' = [sqlite_sequence EXCEPT !.roadmap_milestones = @ + 1]
    /\ resp' = NoResp
    /\ report' = NoReport
    /\ error' = None
    /\ UNCHANGED <<assets, seq_assets, sensor_readings, seq_readings, now, cache,
                   targets, upserted, logs, financial_targets, roadmap_phases,
                   impact_indicators, plan_cache, page>>

\* update_milestone_status(conn, milestone_id, status)
DbUpdateMilestoneStatus ==
    /\ \E milestone_id \in 1..sqlite_sequence.roadmap_milestones,
          status \in MilestoneStatuses :
          roadmap_milestones' =
              update_milestone_status(roadmap_milestones, milestone_id, status, None)
    /\ resp' = NoResp
    /\ report' = NoReport
    /\ error' = None
    /\ UNCHANGED <<assets, seq_assets, sensor_readings, seq_readings, now, cache,
                   targets, upserted, logs, financial_targets, roadmap_phases,
                   impact_indicators, sqlite_sequence, plan_cache, page>>

\* The impact tab as a script run displays it from the indicators frame.
ImpactPage(indicators) == [tab |-> "impact", cards |-> ImpactCards(indicators)]

IndicatorNames == {"", "Emplois"}
IndicatorDomains == {"Social", "Environnement"}
IndicatorTargets == {0, 35}
IndicatorCurrents == {7, 70}

\* "Ajouter l'indicateur" on the impact tab: the run displays the cards,
\* then inserts when a name was typed, clears the caches and reruns.
AddIndicatorForm ==
    /\ \E ind_domain \in IndicatorDomains, ind_name \in IndicatorNames,
          ind_target \in IndicatorTargets, ind_current \in IndicatorCurrents :
          \/ /\ ind_name # ""
             /\ PlanRows < MaxPlanRows
             /\ IsNone(ImpactError(ImpactCards(load_impact_indicators(plan_cache,
                                                                      impact_indicators))))
             /\ impact_indicators' =
                    add_impact_indicator(impact_indicators,
                                         sqlite_sequence.impact_indicators,
                                         ind_domain, ind_name, "personnes",
                                         ind_target, ind_current, now)
             /\ sqlite_sequence' = [sqlite_sequence EXCEPT !.impact_indicators = @ + 1]
             /\ cache' = ClearAndRerun(assets)
             /\ plan_cache' = [NoPlanCache EXCEPT
                                  !.impact = Some(get_impact_indicators(impact_indicators'))]
          \/ /\ \/ ind_name = ""
                \/ ~IsNone(ImpactError(ImpactCards(load_impact_indicators(plan_cache,
                                                                          impact_indicators))))
             /\ UNCHANGED <<impact_indicators, sqlite_sequence>>
             /\ cache' = Some(load_assets(cache, assets))
             /\ plan_cache' = [plan_cache EXCEPT
                                  !.impact = Some(load_impact_indicators(plan_cache,
                                                                         impact_indicators))]
    /\ page' = ImpactPage(Val(plan_cache'.impact))
    /\ error' = ImpactError(page'.cards)
    /\ resp' = NoResp
    /\ report' = NoReport
    /\ init_db_again
    /\ UNCHANGED <<assets, seq_assets, sensor_readings, seq_readings, now, upserted,
                   logs, financial_targets, roadmap_phases, roadmap_milestones>>

\* A script run with the strategic tab selected: the roadmap KPI; the page
\* keeps the number of milestones of the frame the rate was computed from.
RenderStrategic ==
    LET a == load_assets(cache, assets)
        milestones == load_roadmap(plan_cache, roadmap_milestones)
        roadmap_pct == compute_roadmap_progress(milestones)
    IN /\ cache' = Some(a)
       /\ plan_cache' = [plan_cache EXCEPT
                            !.roadmap = Some(milestones),
                            !.phases = Some(load_phases(plan_cache, roadmap_phases))]
       /\ error' = roadmap_pct.raised
       /\ page' = IF IsNone(error')
                  THEN [tab |-> "strategic", milestones |-> Len(milestones),
                        roadmap_pct |-> Round1(roadmap_pct.value)]
                  ELSE NoPage
       /\ report' = NoReport
       /\ init_db_again
       /\ UNCHANGED <<assets, seq_assets, sensor_readings, seq_readings, now, resp,
                      upserted, logs, plans, sqlite_sequence>>

\* A script run with the impact tab selected.
RenderImpact ==
    LET a == load_assets(cache, assets)
        indicators == load_impact_indicators(plan_cache, impact_indicators)
    IN /\ cache' = Some(a)
       /\ plan_cache' = [plan_cache EXCEPT !.impact = Some(indicators)]
       /\ page' = ImpactPage(indicators)
       /\ error' = ImpactError(page'.cards)
       /\ report' = NoReport
       /\ init_db_again
       /\ UNCHANGED <<assets, seq_assets, sensor_readings, seq_readings, now, resp,
                      upserted, logs, plans, sqlite_sequence>>

\* ttl=60: a cached roadmap or indicators frame is dropped.
PlanCacheExpire ==
    /\ \E f \in {"roadmap", "impact"} :
          /\ plan_cache[f] # NoCache
          /\ plan_cache' = IF f = "roadmap"
                           THEN [plan_cache EXCEPT !.roadmap = NoCache, !.phases = NoCache]
                           ELSE [plan_cache EXCEPT ![f] = NoCache]
    /\ UNCHANGED <<assets, seq_assets, sensor_readings, seq_readings, now, cache, resp,
                   report, targets, upserted, logs, plans, sqlite_sequence, page, error>>

NextRates ==
    \/ DbAddRoadmapMilestone
    \/ DbUpdateMilestoneStatus
    \/ AddIndicatorForm
    \/ RenderStrategic
    \/ RenderImpact
    \/ PlanCacheExpire

SpecRates == Init /\ [][NextRates]_vars

\* Rows ever inserted into rabbit_logs and vivoplant_logs together.
MaxLogs == 2

LogKinds == {[asset_type |-> "rabbitry", name |-> "Clapier A", crop_type |-> None],
             [asset_type |-> "vivoplant", name |-> "Lot PIF 001",
              crop_type |-> Some("Banane Plantain")]}
RabbitSamples == {[births |-> 0, deaths |-> 3], [births |-> 4, deaths |-> 1]}
VivoplantSamples == {[produced |-> 100, losses |-> 30], [produced |-> 100, losses |-> 5]}
LossValues == {[loss_rate |-> 10]}

\* add_rabbit_log(conn, asset_id, dt, females, males, births, deaths, ...)
\* for a stored rabbitry.
DbAddRabbitLog ==
    /\ sqlite_sequence.rabbit_logs + sqlite_sequence.vivoplant_logs < MaxLogs
    /\ \E i \in {k \in 1..Len(assets) : assets[k].asset_type = "rabbitry"},
          s \in RabbitSamples :
          rabbit_logs' = add_rabbit_log(rabbit_logs, sqlite_sequence.rabbit_logs,
                                        assets[i].asset_id, now,
                                        Some(s.births), Some(s.deaths))
    /\ sqlite_sequence' = [sqlite_sequence EXCEPT !.rabbit_logs = @ + 1]
    /\ resp' = NoResp
    /\ report' = NoReport
    /\ error' = None
    /\ UNCHANGED <<assets, seq_assets, sensor_readings, seq_readings, now, cache,
                   targets, upserted, vivoplant_logs, plans, plan_cache, page>>

\* add_vivoplant_log(conn, asset_id, dt, produced, transplanted, losses, notes)
\* for a stored vivoplant lot.
DbAddVivoplantLog ==
    /\ sqlite_sequence.rabbit_logs + sqlite_sequence.vivoplant_logs < MaxLogs
    /\ \E i \in {k \in 1..Len(assets) : assets[k].asset_type = "vivoplant"},
          s \in VivoplantSamples :
          vivoplant_logs' = add_vivoplant_log(vivoplant_logs, sqlite_sequence.vivoplant_logs,
                                              assets[i].asset_id, now,
                                              Some(s.produced), Some(s.losses))
    /\ sqlite_sequence' = [sqlite_sequence EXCEPT !.vivoplant_logs = @ + 1]
    /\ resp' = NoResp
    /\ report' = NoReport
    /\ error' = None
    /\ UNCHANGED <<assets, seq_assets, sensor_readings, seq_readings, now, cache,
                   targets, upserted, rabbit_logs, plans, plan_cache, page>>

NextLogs ==
    \/ DbCreateAsset(LogKinds)
    \/ DbAddRabbitLog
    \/ DbAddVivoplantLog
    \/ DbUpsertTargets(LossValues)
    \/ RenderReporting

SpecLogs == Init /\ [][NextLogs]_vars

\* ------------------------------- the script over a store that holds hives

\* Hives held by the database file when the program starts.
MaxHives == 5

RECURSIVE hives(_)
\* The assets table after n calls of create_asset(conn, "hive", ...).
hives(n) == IF n = 0 THEN <<>> ELSE create_asset(hives(n - 1), n - 1, "hive", "Ruche", None)

\* init_db on an existing database file: CREATE TABLE IF NOT EXISTS keeps
\* the rows that the file holds.
InitHives ==
    /\ \E n \in 0..MaxHives : assets = hives(n) /\ seq_assets = n
    /\ sensor_readings = <<>>
    /\ seq_readings = 0
    /\ targets = insert_or_ignore_targets(<<>>, T0)
    /\ rabbit_logs = <<>>
    /\ vivoplant_logs = <<>>
    /\ financial_targets = <<>>
    /\ roadmap_phases = <<>>
    /\ roadmap_milestones = <<>>
    /\ impact_indicators = <<>>
    /\ sqlite_sequence = NoSeq
    /\ now = T0
    /\ cache = NoCache
    /\ resp = NoResp
    /\ report = NoReport
    /\ upserted = None
    /\ plan_cache = NoPlanCache
    /\ page = NoPage
    /\ error = None

NextHives ==
    \/ AddPlotForm
    \/ SensorFormSubmit
    \/ SeedData
    \/ ResetDatabase
    \/ RenderPerformance
    \/ RenderReporting
    \/ CacheExpire

SpecHives == InitHives /\ [][NextHives]_vars

\* ----------------------------------- actions: the economic model's targets

SavedYears == {2025, 2026}
SavedAmounts == {0, 100000}
SavedMore == {0, 200000}

\* "Enregistrer les objectifs" with any of the sampled years and amounts.
FinancialTargetSave == add_fin(SavedYears, SavedAmounts, SavedMore)

NextFinance ==
    \/ FinancialTargetSave
    \/ ResetDatabase
    \/ Tick

SpecFinance == Init /\ [][NextFinance]_vars

\* ------------------------ actions: Configuration buttons and the Roadmap tab

\* Presses of one inserting button.
MaxPresses == 2

\* The list "defaults" of the default-indicators button.
defaults ==
    <<[domain |-> "Social", name |-> "Emplois créés", unit |-> "directs",
       target_2027 |-> 35, current_value |-> 0],
      [domain |-> "Social", name |-> "Femmes formées", unit |-> "% bénéficiaires",
       target_2027 |-> 60, current_value |-> 0],
      [domain |-> "Social", name |-> "Déchets recyclés", unit |-> "%",
       target_2027 |-> 95, current_value |-> 0],
      [domain |-> "Environnement", name |-> "Émissions évitées", unit |-> "tCO2/an",
       target_2027 |-> 120, current_value |-> 0],
      [domain |-> "Economique", name |-> "Autonomie alimentaire", unit |-> "% village",
       target_2027 |-> 70, current_value |-> 0]>>

RECURSIVE add_defaults(_, _, _, _)
\* for d, n, u, t, c in defaults: db.add_impact_indicator(conn, d, n, u, t, c)
add_defaults(tbl, n, rows, dt) ==
    IF rows = <<>> THEN tbl
    ELSE LET r == Head(rows)
         IN add_defaults(add_impact_indicator(tbl, n, r.domain, r.name, r.unit,
                                              r.target_2027, r.current_value, dt),
                         n + 1, Tail(rows), dt)

\* "Réinitialiser indicateurs par défaut": the five inserts, then
\* st.cache_data.clear() and st.rerun().
DefaultIndicatorsButton ==
    /\ sqlite_sequence.impact_indicators < Len(defaults) * MaxPresses
    /\ impact_indicators' =
           add_defaults(impact_indicators, sqlite_sequence.impact_indicators, defaults, now)
    /\ sqlite_sequence' = [sqlite_sequence EXCEPT !.impact_indicators = @ + Len(defaults)]
    /\ cache' = ClearAndRerun(assets)
    /\ plan_cache' = NoPlanCache
    /\ resp' = NoResp
    /\ report' = NoReport
    /\ init_db_again
    /\ page' = NoPage
    /\ error' = None
    /\ UNCHANGED <<assets, seq_assets, sensor_readings, seq_readings, now, upserted, logs,
                   financial_targets, roadmap_phases, roadmap_milestones>>

\* The list "phases_default" of the default-roadmap button.
phases_default ==
    <<[name |-> "Préparation", status |-> "completed", start |-> "2023-10-01"],
      [name |-> "Lancement", status |-> "in_progress", start |-> "2025-01-01"],
      [name |-> "Maturité", status |-> "pending", start |-> "2026-05-01"]>>

RECURSIVE add_phases(_, _, _)
\* for name, status, start, end, desc in phases_default: db.add_roadmap_phase(...)
add_phases(tbl, n, rows) ==
    IF rows = <<>> THEN tbl
    ELSE LET r == Head(rows)
         IN add_phases(add_roadmap_phase(tbl, n, r.name, r.status, r.start),
                       n + 1, Tail(rows))

\* "Créer feuille de route par défaut".
DefaultRoadmapButton ==
    /\ sqlite_sequence.roadmap_phases < Len(phases_default) * MaxPresses
    /\ roadmap_phases' =
           add_phases(roadmap_phases, sqlite_sequence.roadmap_phases, phases_default)
    /\ sqlite_sequence' = [sqlite_sequence EXCEPT !.roadmap_phases = @ + Len(phases_default)]
    /\ cache' = ClearAndRerun(assets)
    /\ plan_cache' = NoPlanCache
    /\ resp' = NoResp
    /\ report' = NoReport
    /\ init_db_again
    /\ page' = NoPage
    /\ error' = None
    /\ UNCHANGED <<assets, seq_assets, sensor_readings, seq_readings, now, upserted, logs,
                   financial_targets, roadmap_milestones, impact_indicators>>

\* The Roadmap tab as displayed: whether "Créez d'abord une phase." shows.
RoadmapPage(phases) == [tab |-> "roadmap", warning |-> Len(phases) = 0]

\* "Ajouter le jalon" pressed on the Roadmap tab: phase_id is taken with
\* .values[0] (a numpy.int64) from the first row of the phases frame that
\* has the selected name, or is None when the frame is empty, and the
\* milestone is inserted when phase_id is true.
MilestoneForm ==
    LET phases == load_phases(plan_cache, roadmap_phases)
        milestones == load_roadmap(plan_cache, roadmap_milestones)
    IN /\ \/ /\ Len(phases) > 0
             /\ sqlite_sequence.roadmap_milestones < MaxPresses
             /\ \E sel_phase \in {phases[i].name : i \in 1..Len(phases)},
                   mile_date \in MilestoneDates :
                   LET first == CHOOSE i \in 1..Len(phases) :
                                    /\ phases[i].name = sel_phase
                                    /\ \A j \in 1..(i - 1) : phases[j].name # sel_phase
                       phase_id == phases[first].phase_id
                   IN /\ phase_id # 0
                      /\ roadmap_milestones' =
                             add_roadmap_milestone(roadmap_milestones,
                                                   sqlite_sequence.roadmap_milestones,
                                                   Some(bind_numpy_int64(phase_id)),
                                                   "Jalon", mile_date, "pending")
             /\ sqlite_sequence' = [sqlite_sequence EXCEPT !.roadmap_milestones = @ + 1]
             /\ cache' = ClearAndRerun(assets)
             /\ plan_cache' = [NoPlanCache EXCEPT
                                  !.phases = Some(get_roadmap_phases(roadmap_phases)),
                                  !.roadmap = Some(get_roadmap_milestones(roadmap_milestones'))]
          \/ /\ Len(phases) = 0
             /\ UNCHANGED <<roadmap_milestones, sqlite_sequence>>
             /\ cache' = Some(load_assets(cache, assets))
             /\ plan_cache' = [plan_cache EXCEPT !.phases = Some(phases),
                                                 !.roadmap = Some(milestones)]
       /\ page' = RoadmapPage(Val(plan_cache'.phases))
       /\ resp' = NoResp
       /\ report' = NoReport
       /\ init_db_again
       /\ error' = None
       /\ UNCHANGED <<assets, seq_assets, sensor_readings, seq_readings, now, upserted,
                      logs, financial_targets, roadmap_phases, impact_indicators>>

NextPlan ==
    \/ DefaultIndicatorsButton
    \/ DefaultRoadmapButton
    \/ MilestoneForm
    \/ ResetDatabase
    \/ Tick

SpecPlan == Init /\ [][NextPlan]_vars

\* ------------------------------------------------------------------ claims

\* The datetime a stored date was formatted from.
TimeOf(date) ==
    [sec |-> (date[1] - Ord0) * 10 + (date[2] - Ord0),
     us |-> IF Len(date) = 2 THEN 0
            ELSE (date[4] - Ord0) * 100000 + (date[5] - Ord0) * 10000
               + (date[6] - Ord0) * 1000 + (date[7] - Ord0) * 100
               + (date[8] - Ord0) * 10 + (date[9] - Ord0)]

\* r is the latest reading of its asset in tbl: none of the asset's readings
\* is dated later, and none with the same date was inserted after it.
IsLatest(r, tbl) ==
    \A i \in 1..Len(tbl) :
        tbl[i].asset_id = r.asset_id =>
            \/ Earlier(TimeOf(tbl[i].date), TimeOf(r.date))
            \/ /\ TimeOf(tbl[i].date) = TimeOf(r.date)
               /\ tbl[i].reading_id <= r.reading_id

LatestOnly(tbl) == SelectRows(tbl, {i \in 1..Len(tbl) : IsLatest(tbl[i], tbl)})

\* What the three cards of a displayed report show.
Shown(r) == <<r.col1, r.col2, r.col3>>

Below(a, c) == ~a.nan /\ a.sum < c * a.n
Equals(a, c) == ~a.nan /\ a.sum = c * a.n

PhTexts == {PhOptimal(Zero).text, PhWatch(Zero).text}
MoistTexts == {MoistSaturation.text, MoistStable.text}

\* The list holds an entry about the metric.
About(l, texts) == \E i \in 1..Len(l) : l[i].text \in texts

\* C1: after get_latest_sensor_by_plot, every asset with a stored reading
\* has exactly one row in the result, and that row is its latest reading
\* (maximum timestamp, the last inserted among those sharing it).
C1_OneLatestPerAsset ==
    resp.op = "get_latest_sensor_by_plot" =>
        \A a \in {sensor_readings[i].asset_id : i \in 1..Len(sensor_readings)} :
            LET mine == {i \in 1..Len(resp.rows) : resp.rows[i].asset_id = a}
            IN /\ Cardinality(mine) = 1
               /\ \A i \in mine : IsLatest(resp.rows[i], sensor_readings)

\* C2: get_sensor_readings(since) returns exactly the stored readings whose
\* timestamp is not earlier than since (a reading dated at since included),
\* and an empty result when there is none.
C2_WindowIsInclusive ==
    (resp.op = "get_sensor_readings" /\ ~IsNone(resp.since)) =>
        resp.rows =
            SelectRows(sensor_readings,
                       {i \in 1..Len(sensor_readings) :
                          ~Earlier(TimeOf(sensor_readings[i].date), Val(resp.since))})

C2_Witness ==
    /\ resp.op = "get_sensor_readings"
    /\ ~IsNone(resp.since)
    /\ \E i, j \in 1..Len(sensor_readings) :
          /\ TimeOf(sensor_readings[i].date) = Val(resp.since)
          /\ Earlier(TimeOf(sensor_readings[j].date), Val(resp.since))
    /\ Len(resp.rows) = 1

\* C3: the displayed recommendations are those of the latest reading of each
\* asset alone: the store reduced to its per-asset latest readings yields the
\* same three cards.
C3_OnlyLatestMatters ==
    report.shown =>
        Shown(report) =
            Shown(Diagnostic(NoReport, LatestOnly(sensor_readings),
                             load_assets(cache, assets)))

\* C4: a pH or soil-moisture mean strictly below its low bound puts an entry
\* about that metric on the vigilance card.
C4_BelowLowWarns ==
    report.shown =>
        /\ Below(mean(sensor_readings, "soil_ph"), PhLow)
              => About(report.weaknesses, PhTexts)
        /\ Below(mean(sensor_readings, "soil_moisture"), MoistLow)
              => About(report.weaknesses, MoistTexts)

\* C5: a pH or soil-moisture mean strictly above its high bound puts an
\* entry about that metric on the vigilance card.
C5_AboveHighWarns ==
    report.shown =>
        /\ Above(mean(sensor_readings, "soil_ph"), PhHigh)
              => About(report.weaknesses, PhTexts)
        /\ Above(mean(sensor_readings, "soil_moisture"), MoistHigh)
              => About(report.weaknesses, MoistTexts)

C5_Witness ==
    /\ report.shown
    /\ Above(mean(sensor_readings, "soil_ph"), PhHigh)
    /\ Above(mean(sensor_readings, "soil_moisture"), MoistHigh)
    /\ Len(report.weaknesses) = 2

\* C6: a pH mean of exactly 6.0 or 7.0, or a soil-moisture mean of exactly
\* 40 or 80, puts no entry about that metric on the vigilance card.
C6_BoundsAreInclusive ==
    report.shown =>
        /\ (\/ Equals(mean(sensor_readings, "soil_ph"), PhLow)
            \/ Equals(mean(sensor_readings, "soil_ph"), PhHigh))
              => ~About(report.weaknesses, PhTexts)
        /\ (\/ Equals(mean(sensor_readings, "soil_moisture"), MoistLow)
            \/ Equals(mean(sensor_readings, "soil_moisture"), MoistHigh))
              => ~About(report.weaknesses, MoistTexts)

C6_Witness ==
    /\ report.shown
    /\ Len(sensor_readings) = 2
    /\ Equals(mean(sensor_readings, "soil_ph"), PhLow)
    /\ sensor_readings[1].soil_ph # sensor_readings[2].soil_ph
    /\ report.weaknesses = <<>>

C8_NoProfileNoFinding ==
    (/\ report.shown
     /\ \A i \in 1..Len(sensor_readings) :
           \E j \in 1..Len(assets) :
               /\ assets[j].asset_id = sensor_readings[i].asset_id
               /\ IsNone(assets[j].crop_type))
        => /\ ~About(report.weaknesses, PhTexts)
           /\ ~About(report.weaknesses, MoistTexts)

\* C9: the displayed cards are never all empty, and when no vigilance entry
\* was produced they hold exactly one "Aucun point de vigilance" entry.
C9_NoSignalEntry ==
    report.shown =>
        LET out == report.col1 \o report.col2 \o report.col3
        IN /\ out # <<>>
           /\ report.col2 # <<>>
           /\ report.weaknesses = <<>> =>
                 Cardinality({i \in 1..Len(out) : out[i] = NoVigilance}) = 1

C9_Witness ==
    /\ report.shown
    /\ report.weaknesses = <<>>
    /\ report.col2 = <<NoVigilance>>

\* C10: a script run that displays the Reporting tab again, the store being
\* unchanged since it was displayed, shows the same entries in the same
\* order.
C10_SameReportAgain ==
    [][(report.shown /\ report'.shown) => Shown(report') = Shown(report)]_vars

C10_Witness ==
    /\ report.shown
    /\ report.again
    /\ sensor_readings # <<>>
    /\ cache = Some(get_plots(assets))

\* Every table of the store and every AUTOINCREMENT counter.
Tables == <<assets, seq_assets, sensor_readings, seq_readings, targets,
            rabbit_logs, vivoplant_logs, financial_targets, roadmap_phases,
            roadmap_milestones, impact_indicators, sqlite_sequence>>

\* C11: a script run that renders the Reporting tab leaves every table of
\* the store with the rows it had.
C11_RenderingOnlyReads ==
    [][RenderReporting => UNCHANGED Tables]_vars

C11_Witness ==
    /\ report.shown
    /\ sensor_readings # <<>>
    /\ financial_targets # <<>>
    /\ now # T0

ReadingsKept ==
    \A i \in 1..Len(sensor_readings) :
        \E j \in 1..Len(sensor_readings') : sensor_readings'[j] = sensor_readings[i]

\* C13 as stated: no operation of the application removes or changes a
\* stored reading.
C13_ReadingsAppendOnly ==
    [][ReadingsKept]_vars

\* C13 amended: every operation of the application other than the reset
\* button keeps every stored reading, fields unchanged.
C13_AppendOnlyButReset ==
    [][ResetDatabase \/ ReadingsKept]_vars

C13_Witness ==
    /\ Len(sensor_readings) = 2
    /\ sensor_readings[1].asset_id = sensor_readings[2].asset_id
    /\ report.shown

\* C14: the targets table holds exactly one row, and its id is 1, after
\* init_db and after every later init_db and upsert_targets call.
C14_TargetsSingleton ==
    /\ Len(targets) = 1
    /\ targets[1].id = 1

C14_Witness ==
    /\ resp.op = "init_db"
    /\ ~IsNone(upserted)
    /\ targets[1].updated_at # Some(isoformat(now))

\* C15: get_targets returns, for each of the six goal fields, what the most
\* recent upsert_targets call passed for it (None for a field its dict did
\* not hold), never the value of an earlier call.
C15_TargetsAreCurrent ==
    (resp.op = "get_targets" /\ ~IsNone(upserted)) =>
        \A k \in GoalFields : resp.row[k] = Get(Val(upserted), k)

C15_Witness ==
    /\ resp.op = "get_targets"
    /\ ~IsNone(upserted)
    /\ DOMAIN Val(upserted) # GoalFields
    /\ resp.row["loss_rate"] = Some(50)
    /\ resp.row["updated_at"] # Some(isoformat(T0))

\* C16: no displayed rate comes with a division fault, every displayed rate
\* is >= 0, the roadmap progress over zero milestones is 0 and the progress
\* of an indicator whose target is 0 is 0.
C16_RatesAreGuarded ==
    /\ IsNone(error)
    /\ page.tab = "strategic" =>
          /\ page.roadmap_pct >= 0
          /\ page.milestones = 0 => page.roadmap_pct = 0
    /\ page.tab = "impact" =>
          \A i \in 1..Len(page.cards) :
              /\ IsNone(page.cards[i].pct.raised)
              /\ AtLeast(page.cards[i].pct.value, 0)
              /\ page.cards[i].target_2027 = 0 => Equals(page.cards[i].pct.value, 0)

C16_Witness ==
    /\ page.tab = "impact"
    /\ IsNone(error)
    /\ \E i, j \in 1..Len(page.cards) :
          /\ page.cards[i].target_2027 = 0
          /\ page.cards[i].current_value > 0
          /\ Equals(page.cards[i].pct.value, 0)
          /\ page.cards[j].target_2027 > 0
          /\ Above(page.cards[j].pct.value, 0)
    /\ roadmap_milestones = <<>>
    /\ plan_cache.roadmap = Some(<<>>)

\* The texts of every entry about soil or hives, and of the placeholders.
SoilHiveTexts ==
    PhTexts \cup MoistTexts
        \cup {HiveExtension.text, HiveProductive(0).text,
              NoForce.text, NoVigilance.text, NoOpportunity.text}

\* The displayed cards hold an entry that is none of those.
OtherFinding(r) ==
    \E i \in 1..3 : \E j \in 1..Len(Shown(r)[i]) : Shown(r)[i][j].text \notin SoilHiveTexts

\* The logs of one asset.
LogsOf(tbl, asset_id) == SelectRows(tbl, {i \in 1..Len(tbl) : tbl[i].asset_id = asset_id})

\* C17: when a rabbit unit's logs sum to zero births and some deaths, the
\* displayed recommendations hold a finding about it (an entry that is not
\* one of the soil, hive or placeholder entries).
C17_DeathsWithoutBirths ==
    (/\ report.shown
     /\ \E i \in 1..Len(assets) :
           /\ assets[i].asset_type = "rabbitry"
           /\ ColSum(LogsOf(rabbit_logs, assets[i].asset_id), "births") = 0
           /\ ColSum(LogsOf(rabbit_logs, assets[i].asset_id), "deaths") > 0)
        => OtherFinding(report)

\* losses / max(produced + losses, 1) * 100 exceeds the tolerance.
LossRateExceeds(lot, tolerance) ==
    LET produced == ColSum(lot, "produced")
        losses == ColSum(lot, "losses")
        total == produced + losses
    IN 100 * losses > tolerance * (IF total > 1 THEN total ELSE 1)

\* C18: with a tolerance configured in targets.loss_rate, the displayed
\* recommendations hold a loss finding exactly when the loss rate of some
\* vivoplant lot exceeds it.
C18_LossRateFinding ==
    (report.shown /\ ~IsNone(targets[1].loss_rate)) =>
        (OtherFinding(report) <=>
            \E i \in 1..Len(assets) :
                /\ assets[i].asset_type = "vivoplant"
                /\ LossRateExceeds(LogsOf(vivoplant_logs, assets[i].asset_id),
                                   Val(targets[1].loss_rate)))

\* C19: the step of the reset button leaves every data table empty.
C19_ResetErasesAll ==
    [][ResetDatabase =>
          /\ assets' = <<>>
          /\ sensor_readings' = <<>>
          /\ rabbit_logs' = <<>>
          /\ vivoplant_logs' = <<>>
          /\ roadmap_milestones' = <<>>
          /\ impact_indicators' = <<>>
          /\ financial_targets' = <<>>]_vars

\* The assets of a type that the step inserted.
Seeded(asset_type) ==
    {i \in 1..Len(assets') : /\ assets'[i].asset_id > seq_assets
                             /\ assets'[i].asset_type = asset_type}

SeedReadings == 10

\* C20: the step of the seed button ends without an exception and has
\* inserted two plots with 10 sensor readings each, two hives, one rabbitry
\* and one vivoplant lot.
C20_SeedCompletes ==
    [][SeedData =>
          /\ IsNone(error')
          /\ Cardinality(Seeded("plot")) = 2
          /\ \A i \in Seeded("plot") :
                Cardinality({j \in 1..Len(sensor_readings') :
                                sensor_readings'[j].asset_id = assets'[i].asset_id})
                    = SeedReadings
          /\ Cardinality(Seeded("hive")) = 2
          /\ Cardinality(Seeded("rabbitry")) = 1
          /\ Cardinality(Seeded("vivoplant")) = 1]_vars

\* C21: whenever the Performance tab is displayed, the add form of the
\* selected sub-section (plot, hive, rabbitry, vivoplant lot) is on the
\* page, so that an asset of that type can be registered.
C21_SubSectionsReachable ==
    page.tab = "performance" =>
        \E k \in 1..Len(SUB_TABS) : page.sub = SUB_TABS[k] /\ AddForms[k] \in page.forms

\* The five columns the default-indicators button sets, for every row.
IndicatorValues(tbl) ==
    [i \in 1..Len(tbl) |->
        [domain |-> tbl[i].domain, name |-> tbl[i].name, unit |-> tbl[i].unit,
         target_2027 |-> tbl[i].target_2027, current_value |-> tbl[i].current_value]]

\* C22: after the default-indicators button, impact_indicators holds
\* exactly the five default indicators (so that pressing it again changes
\* nothing).
C22_DefaultsAreReset ==
    [][DefaultIndicatorsButton => IndicatorValues(impact_indicators') = defaults]_vars

\* SQLite's "=" on two stored values: an INTEGER and a BLOB are never
\* equal, two values of one storage class are equal when they are the same.
SqlEquals(a, b) == ToString(a) = ToString(b)

\* C23: every row of sensor_readings has the asset_id of a stored asset of
\* type 'plot'.
C23_ReadingsReferencePlots ==
    \A i \in 1..Len(sensor_readings) :
        \E j \in 1..Len(assets) :
            /\ assets[j].asset_type = "plot"
            /\ SqlEquals(sensor_readings[i].asset_id, assets[j].asset_id)

\* C24: every roadmap milestone has the phase_id of a stored roadmap phase
\* (so there is no milestone while there is no phase).
C24_MilestonesReferencePhases ==
    \A i \in 1..Len(roadmap_milestones) :
        \E j \in 1..Len(roadmap_phases) :
            /\ ~IsNone(roadmap_milestones[i].phase_id)
            /\ SqlEquals(Val(roadmap_milestones[i].phase_id), roadmap_phases[j].phase_id)

\* C25: no stored asset has an empty name, and a run that answers an add
\* form with "Le nom est requis." leaves assets as it was.
C25_NameRequired ==
    [][/\ \A i \in 1..Len(assets') : assets'[i].name # ""
       /\ (page'.tab = "performance" /\ NameRequired \in page'.messages)
              => assets' = assets]_vars

C25_Witness ==
    /\ assets # <<>>
    /\ page.tab = "performance"
    /\ NameRequired \in page.messages

\* C28: once a run has committed a change to the assets table, the next
\* load_assets() returns the table as committed.
C28_CacheIsFresh ==
    [][assets' # assets => load_assets(cache', assets') = get_plots(assets')]_vars

\* The sum of the five amounts of a row or of a save.
SumOfAmounts(r) ==
    r.banane_ca + r.taro_ca + r.apiculture_ca + r.cuniculture_ca + r.vivoplants_ca

\* C26: a save leaves one row per year; the row of the saved year carries
\* the amounts just saved, the rows of the other years stay as they were,
\* and total_target is the sum of the five amounts in every row.
C26_OneCurrentRowPerYear ==
    [][FinancialTargetSave =>
          LET saved == Val(upserted')
              new == financial_targets'
          IN /\ \A i, j \in 1..Len(new) : new[i].year = new[j].year => i = j
             /\ \E i \in 1..Len(new) :
                   /\ new[i].year = saved.year
                   /\ \A k \in DOMAIN saved.kwargs : new[i][k] = saved.kwargs[k]
             /\ \A i \in 1..Len(financial_targets) :
                   financial_targets[i].year # saved.year =>
                       \E j \in 1..Len(new) : new[j] = financial_targets[i]
             /\ \A i \in 1..Len(new) : new[i].total_target = SumOfAmounts(new[i])]_vars

\* Both years hold a row, and the row of 2025 was saved again with other
\* amounts after the row of 2026 was written.
C26_Witness ==
    /\ Len(financial_targets) = 2
    /\ ~IsNone(upserted)
    /\ Val(upserted).year = 2025
    /\ TextLeq(financial_targets[2].updated_at, financial_targets[1].updated_at)
    /\ financial_targets[1].updated_at # financial_targets[2].updated_at
    /\ financial_targets[1].total_target = 300000

\* How many entries of the list l have the text of e.
Occurrences(l, e) == Cardinality({i \in 1..Len(l) : l[i].text = e.text})

\* C27: a displayed diagnostic holds exactly one entry of the hive rule: the
\* extension opportunity when fewer than five hives are stored, else the
\* productive-apiary strength with the number of stored hives.
C27_OneHiveEntry ==
    report.shown =>
        LET stored == Cardinality({i \in 1..Len(assets) : assets[i].asset_type = "hive"})
            all == report.forces \o report.weaknesses \o report.opportunities
        IN /\ Occurrences(all, HiveExtension) + Occurrences(all, HiveProductive(stored)) = 1
           /\ stored < HiveGoal <=> Occurrences(report.opportunities, HiveExtension) = 1
           /\ stored >= HiveGoal <=> HiveProductive(stored) \in
                                        {report.forces[i] : i \in 1..Len(report.forces)}

\* The diagnostic shows the strength for five stored hives.
C27_Witness ==
    /\ report.shown
    /\ Cardinality({i \in 1..Len(assets) : assets[i].asset_type = "hive"}) = HiveGoal
    /\ HiveProductive(HiveGoal) \in {report.forces[i] : i \in 1..Len(report.forces)}

====
